---- MODULE Spec2Model ----
(***************************************************************************)
(* Robotics industry projections 2026: the ensemble projection engine of   *)
(* src/src/analysis.py (RoboticsProjectionAnalyzer), the historical        *)
(* dataset it reads (src/src/data_collection.py) and the command line      *)
(* program that drives them (src/src/cli.py, src/src/run_analysis.py).     *)
(*                                                                         *)
(* Numbers.  The program computes in float64.  A number is modelled as a   *)
(* reduced fraction [n, d], d > 0.  Sums, differences and the least-squares*)
(* normal equations are exact; the result of an operation that a float     *)
(* rounds (a division, a product of two fractions, a power, a root, the    *)
(* value a regression predicts) is kept exactly when it has at most three  *)
(* decimal places and is cut to three places otherwise (Fl).  TLC's        *)
(* integers are 32 bits wide, which is what fixes that precision.          *)
(*                                                                         *)
(* Files.  A CSV file is text: to_csv writes a number as decimal digits    *)
(* and read_csv parses them.  What the storage does to a read or a write   *)
(* (succeed, or fail with an exception) is an input of the call.           *)
(*                                                                         *)
(* Four specifications: Spec is a run of generate_2026_projections and     *)
(* of what follows it, over files that change between runs; SpecMethods    *)
(* calls one operation on one small series; SpecCollector calls            *)
(* generate_historical_data and load_data, one after another; SpecCli is   *)
(* cli.main on one command line, the command taken call by call, with      *)
(* interrupts and with directories removed under it.                       *)
(***************************************************************************)
EXTENDS Integers, Sequences, FiniteSets, TLC

VARIABLES
    values, years, target_year,     \* the arguments of a call of a projection method
    call,                           \* the method called and what it gave back
    files,                          \* the three CSV files of data/raw
    pc, idx,                        \* position inside generate_2026_projections
    historical_data,                \* its three data frames
    projections,                    \* its dict of results
    inserts,                        \* how often each key was assigned in this run
    raised,                         \* the exception that ended the last run, if any
    last_run,                       \* the data and the dict of the last run that returned
    runs, edits,                    \* runs started, changes made to the files
    io,                             \* the file operations of the step just taken
    outputs,                        \* the projections CSV and the report file
    op, prev_op,                    \* the last call of the collector and the one before
    df,                             \* the table calculate_growth_rates was handed
    argv,                           \* the arguments cli.main was given
    cli_pc,                         \* position of the command line program
    completed,                      \* the calls the command has completed, in order
    exit,                           \* how main was left: exit code or exception
    dirs, removed,                  \* directories on disk, and those removed since config
    disk,                           \* the artefacts on disk
    collector                       \* the last RoboticsDataCollector constructed

hvars == <<values, years, target_year, call>>
dvars == <<files, pc, idx, historical_data, projections, inserts, raised, last_run, runs, edits,
           io, outputs>>
cvars == <<op, prev_op, df>>
kvars == <<argv, cli_pc, completed, exit, dirs, removed, disk, collector>>
vars == <<values, years, target_year, call, files, pc, idx, historical_data,
          projections, inserts, raised, last_run, runs, edits, io, outputs, op, prev_op, df,
          argv, cli_pc, completed, exit, dirs, removed, disk, collector>>

----------------------------------------------------------------------------
(* float arithmetic *)
(* The helpers are functions rather than operators: a function's argument   *)
(* is a value by the time its body is evaluated.                            *)

Rat == [n : Int, d : Nat \ {0}]

Abs[x \in Int] == IF x < 0 THEN -x ELSE x

GCD[a \in Nat, b \in Nat] == IF b = 0 THEN a ELSE GCD[b, a % b]

\* the fraction n/d in lowest terms
Q[n \in Int, d \in Int \ {0}] ==
    LET g == GCD[Abs[n], Abs[d]]
        s == IF d < 0 THEN -1 ELSE 1
    IN  [n |-> (s * n) \div g, d |-> (s * d) \div g]

R[i \in Int] == [n |-> i, d |-> 1]
Zero == R[0]
One == R[1]

NegQ[p \in Rat] == [n |-> -p.n, d |-> p.d]

AddQ[p \in Rat, q \in Rat] ==
    LET g == GCD[p.d, q.d]
    IN  Q[p.n * (q.d \div g) + q.n * (p.d \div g), (p.d \div g) * q.d]

SubQ[p \in Rat, q \in Rat] == AddQ[p, NegQ[q]]

\* exact product, reduced crosswise before multiplying
MulQ[p \in Rat, q \in Rat] ==
    LET g1 == GCD[Abs[p.n], q.d]
        g2 == GCD[Abs[q.n], p.d]
    IN  IF p.n = 0 \/ q.n = 0 THEN Zero
        ELSE [n |-> (p.n \div g1) * (q.n \div g2), d |-> (p.d \div g2) * (q.d \div g1)]

\* exact quotient, q # 0
DivQ[p \in Rat, q \in Rat] == MulQ[p, Q[q.d, q.n]]

\* p <= q and p < q, the whole parts compared before the fractions
LeQ[p \in Rat, q \in Rat] ==
    LET a == p.n \div p.d
        b == q.n \div q.d
    IN  IF a # b THEN a < b ELSE (p.n % p.d) * q.d <= (q.n % q.d) * p.d

LtQ[p \in Rat, q \in Rat] == ~LeQ[q, p]

FlDigits == 3
FlDen == 10 ^ FlDigits

\* the first k decimal digits of r/d, 0 <= r < d, by long division
Decimals[r \in Nat, d \in Nat, k \in Nat] ==
    IF k = 0 THEN 0
    ELSE ((r * 10) \div d) * 10 ^ (k - 1) + Decimals[(r * 10) % d, d, k - 1]

\* float rounding: exact when p has at most FlDigits decimals, else cut down to them
Fl[p \in Rat] ==
    IF FlDen % p.d = 0 THEN p
    ELSE AddQ[R[p.n \div p.d], Q[Decimals[p.n % p.d, p.d, FlDigits], FlDen]]

\* the same, cut up: never below p
CeilFl[p \in Rat] == NegQ[Fl[NegQ[p]]]

\* float product of two numbers on the grid: Fl of the exact product
MulFl[p \in Rat, q \in Rat] ==
    AddQ[Fl[MulQ[R[p.n \div p.d], q]], Fl[MulQ[Q[p.n % p.d, p.d], q]]]

\* the product rounded up, for p, q >= 0
MulUp[p \in Rat, q \in Rat] ==
    AddQ[CeilFl[MulQ[R[p.n \div p.d], q]], CeilFl[MulQ[Q[p.n % p.d, p.d], q]]]

\* float power x ** k for an integer k >= 0, by squaring
PowFl[x \in Rat, k \in Nat] ==
    IF k = 0 THEN One
    ELSE LET h == PowFl[x, k \div 2]
         IN  IF k % 2 = 0 THEN MulFl[h, h] ELSE MulFl[MulFl[h, h], x]

\* x ** k rounded up, for x >= 0: never below the exact power
PowUp[x \in Rat, k \in Nat] ==
    IF k = 0 THEN One
    ELSE LET h == PowUp[x, k \div 2]
         IN  IF k % 2 = 0 THEN MulUp[h, h] ELSE MulUp[MulUp[h, h], x]

MaxOf(S) == CHOOSE x \in S : \A y \in S : y <= x

\* first power of two whose k-th power exceeds q
RootHi[q \in Rat, k \in Nat, h \in Nat] ==
    IF LtQ[q, PowUp[R[h], k]] THEN h ELSE RootHi[q, k, 2 * h]

\* the digits of the root one decimal place after another: m is the root cut
\* to j places, as a count of 10^-j
RootDigits[q \in Rat, k \in Nat, m \in Nat, j \in Nat] ==
    IF j = FlDigits THEN m
    ELSE LET e == 10 ^ (j + 1)
             d == MaxOf({c \in 0..9 : LeQ[PowUp[Q[10 * m + c, e], k], q]})
         IN  RootDigits[q, k, 10 * m + d, j + 1]

\* float root q ** (1/k) for q >= 0 and an integer k >= 1: the largest number
\* on the grid whose k-th power does not exceed q
RootFl[q \in Rat, k \in Nat] ==
    IF k = 1 THEN q
    ELSE LET h == RootHi[q, k, 1]
             whole == IF h = 1 THEN 0
                      ELSE MaxOf({m \in (h \div 2)..(h - 1) : LeQ[PowUp[R[m], k], q]})
         IN  Q[RootDigits[q, k, whole, 0], FlDen]

\* Python's max(0, x); max(0, nan) is 0 as well
Clamp[x \in Rat] == IF x.n > 0 THEN x ELSE Zero

RECURSIVE SumQ(_)
SumQ(s) == IF s = <<>> THEN Zero ELSE AddQ[Head(s), SumQ(Tail(s))]

RECURSIVE SumInt(_)
SumInt(s) == IF s = <<>> THEN 0 ELSE Head(s) + SumInt(Tail(s))

\* what a call gives back: a value, or the exception it raised
Ret(v) == [exc |-> "none", val |-> v]
Raise(e) == [exc |-> e, val |-> Zero]

----------------------------------------------------------------------------
(* RoboticsProjectionAnalyzer: the four projection methods *)

Last(s) == s[Len(s)]

\* the values as integers over their common denominator
RECURSIVE Lcm(_)
Lcm(s) ==
    IF s = <<>> THEN 1
    ELSE LET l == Lcm(Tail(s)) IN (Head(s).d \div GCD[Head(s).d, l]) * l

Scaled(vs, D) == [i \in 1..Len(vs) |-> vs[i].n * (D \div vs[i].d)]

\* least-squares line through (ys[i], vs[i]) evaluated at t, as LinearRegression
\* computes it: both axes are centred (so only differences of years enter,
\* u = year - ys[1]), the slope is the minimum-norm solution (0 when all years
\* coincide) and the intercept puts the line through the means
LinearFit[vs \in Seq(Rat), ys \in Seq(Int), t \in Int] ==
    LET n == Len(vs)
        D == Lcm(vs)
        a == Scaled(vs, D)
        u == [i \in 1..n |-> ys[i] - ys[1]]
        S1 == SumInt(u)
        T0 == SumInt(a)
        Sxx == n * SumInt([i \in 1..n |-> u[i] * u[i]]) - S1 * S1
        Sxy == n * SumInt([i \in 1..n |-> u[i] * a[i]]) - S1 * T0
        coef == IF Sxx = 0 THEN Zero ELSE Q[Sxy, Sxx]
        ymean == Q[T0, n]
        ux == Q[n * (t - ys[1]) - S1, n]
    IN  Fl[DivQ[AddQ[ymean, MulQ[coef, ux]], R[D]]]

\* variant: the prediction handed back without max(0, .)
project_linear_trend_unclamped(vs, ys, t) ==
    IF Len(vs) = 0 THEN Raise("ValueError")
    ELSE Ret(LinearFit[vs, ys, t])

\* variant: the line fitted over the positions 1, 2, ... of the points
\* instead of their years
project_linear_trend_by_index(vs, ys, t) ==
    IF Len(vs) = 0 THEN Raise("ValueError")
    ELSE Ret(Clamp[LinearFit[vs, [i \in 1..Len(vs) |-> i], Len(vs) + (t - Last(ys))]])

project_linear_trend(vs, ys, t) ==
    IF Len(vs) = 0 THEN Raise("ValueError")     \* model.fit on zero samples
    ELSE Ret(Clamp[LinearFit[vs, ys, t]])

\* least-squares parabola over the features [1, x, x^2], evaluated at t.
\* Three or more distinct years determine it, and then it does not change when
\* the year axis is shifted, so it is computed in u = year - ys[1].  The normal
\* equations are solved by elimination: x^2 is made orthogonal to 1 and x
\* (r is its slope on x), which leaves one equation for each coefficient.
QuadraticFit[vs \in Seq(Rat), ys \in Seq(Int), t \in Int] ==
    LET n == Len(vs)
        D == Lcm(vs)
        a == Scaled(vs, D)
        u == [i \in 1..n |-> ys[i] - ys[1]]
        z == [i \in 1..n |-> u[i] * u[i]]
        S1 == SumInt(u)
        S2 == SumInt(z)
        T0 == SumInt(a)
        Sxx == n * S2 - S1 * S1
        Sxz == n * SumInt([i \in 1..n |-> u[i] * z[i]]) - S1 * S2
        Szz == n * SumInt([i \in 1..n |-> z[i] * z[i]]) - S2 * S2
        Sxy == n * SumInt([i \in 1..n |-> u[i] * a[i]]) - S1 * T0
        Szy == n * SumInt([i \in 1..n |-> z[i] * a[i]]) - S2 * T0
        r == Q[Sxz, Sxx]
        Sqq == SubQ[R[Szz], MulQ[r, R[Sxz]]]
        Sqy == SubQ[R[Szy], MulQ[r, R[Sxy]]]
        b == Q[Sxy, Sxx]
        c == DivQ[Sqy, Sqq]
        ymean == Q[T0, n]
        ux == Q[n * (t - ys[1]) - S1, n]
        zx == Q[n * (t - ys[1]) * (t - ys[1]) - S2, n]
        qx == SubQ[zx, MulQ[r, ux]]
    IN  Fl[DivQ[AddQ[ymean, AddQ[MulQ[b, ux], MulQ[c, qx]]], R[D]]]

\* two points leave the parabola undetermined: lstsq returns the minimum-norm
\* coefficients over the centred features (x, x^2) of the actual years
MinNormFit[vs \in Seq(Rat), ys \in Seq(Int), t \in Int] ==
    LET x1 == ys[1]
        x2 == ys[2]
        d1 == x2 - x1
        d2 == x2 * x2 - x1 * x1
        w == d1 * d1 + d2 * d2
        G == Q[d1 * (2 * t - x1 - x2) + d2 * (2 * t * t - x1 * x1 - x2 * x2), 2 * w]
        ym == DivQ[AddQ[vs[1], vs[2]], R[2]]
    IN  Fl[AddQ[ym, MulFl[Fl[G], SubQ[vs[2], vs[1]]]]]

PolyFit(vs, ys, deg, t) ==
    IF deg = 1 THEN LinearFit[vs, ys, t]
    ELSE IF Len(vs) = 1 THEN vs[1]
    ELSE IF Len(vs) = 2 THEN MinNormFit[vs, ys, t]
    ELSE QuadraticFit[vs, ys, t]

project_polynomial_trend(vs, ys, deg, t) ==
    IF Len(vs) = 0 THEN Raise("ValueError")     \* fit_transform on zero samples
    ELSE Ret(Clamp[PolyFit(vs, ys, deg, t)])

\* smoothed = [values[0]]; smoothed.append(alpha * values[i] + (1 - alpha) * smoothed[-1])
RECURSIVE Smoothed(_, _)
Smoothed(vs, a) ==
    IF Len(vs) = 1 THEN <<vs[1]>>
    ELSE LET prev == Smoothed(SubSeq(vs, 1, Len(vs) - 1), a)
         IN  Append(prev, Fl[AddQ[MulQ[a, Last(vs)], MulQ[SubQ[One, a], Last(prev)]]])

\* variant: the trend taken from the last two values instead of the last two
\* smoothed values
project_exponential_smoothing_raw_trend(vs, a, per) ==
    IF Len(vs) = 0 THEN Raise("IndexError")
    ELSE LET smoothed == Smoothed(vs, a)
             k == Len(smoothed)
             trend == IF k > 1 THEN SubQ[vs[k], vs[k - 1]] ELSE Zero
         IN  Ret(Clamp[AddQ[smoothed[k], MulQ[trend, R[per]]]])

project_exponential_smoothing(vs, a, per) ==
    IF Len(vs) = 0 THEN Raise("IndexError")     \* values[0] of an empty series
    ELSE LET smoothed == Smoothed(vs, a)
             k == Len(smoothed)
             trend == IF k > 1 THEN SubQ[smoothed[k], smoothed[k - 1]] ELSE Zero
             projection == AddQ[smoothed[k], MulQ[trend, R[per]]]
         IN  Ret(Clamp[projection])

\* variant: the growth spread over the number of points instead of the
\* number of years between the first and the last
project_cagr_by_points(vs, ys, t) ==
    IF Len(vs) < 2 THEN Ret(IF Len(vs) > 0 THEN Last(vs) ELSE Zero)
    ELSE LET ratio == Fl[DivQ[Last(vs), vs[1]]]
             cagr == SubQ[RootFl[ratio, Len(vs)], One]
         IN  IF vs[1].n <= 0 THEN Ret(Last(vs))
             ELSE IF ratio.n < 0 THEN Ret(Zero)
             ELSE Ret(Clamp[MulFl[PowFl[AddQ[One, cagr], t - Last(ys)], Last(vs)]])

\* variant: no test of first_value, so that a first value of 0 is divided by
project_cagr_unguarded(vs, ys, t) ==
    IF Len(vs) < 2 THEN Ret(IF Len(vs) > 0 THEN Last(vs) ELSE Zero)
    ELSE IF vs[1].n = 0 THEN Raise("ZeroDivisionError")
    ELSE LET ratio == Fl[DivQ[Last(vs), vs[1]]]
             num_years == Last(ys) - ys[1]
             cagr == SubQ[RootFl[ratio, num_years], One]
         IN  IF ratio.n < 0 /\ num_years # 1 THEN Ret(Zero)
             ELSE Ret(Clamp[MulFl[PowFl[AddQ[One, cagr], t - Last(ys)], Last(vs)]])

\* variant: the rate spread over the number of points
project_cagr_rate_by_points(vs, ys) ==
    LET ratio == Fl[DivQ[Last(vs), vs[1]]]
    IN  IF ratio.n < 0 THEN [n |-> 0, d |-> 0]
        ELSE SubQ[RootFl[ratio, Len(vs)], One]

\* line 90, the local cagr of project_cagr for a series of two values or more
\* that starts above zero: ((last_value / first_value) ** (1 / num_years)) - 1,
\* nan for a negative base with a fractional exponent
project_cagr_rate(vs, ys) ==
    LET num_years == Last(ys) - ys[1]
        ratio == Fl[DivQ[Last(vs), vs[1]]]
    IN  IF ratio.n < 0 /\ num_years # 1 THEN [n |-> 0, d |-> 0]
        ELSE SubQ[RootFl[ratio, num_years], One]

\* (last_value / first_value) ** (1 / num_years): a negative base with a
\* fractional exponent is nan in float64, and max(0, nan) is 0
project_cagr(vs, ys, t) ==
    IF Len(vs) < 2 THEN Ret(IF Len(vs) > 0 THEN Last(vs) ELSE Zero)
    ELSE LET first_value == vs[1]
             last_value == Last(vs)
             num_years == Last(ys) - ys[1]
             ratio == Fl[DivQ[last_value, first_value]]
             isnan == ratio.n < 0 /\ num_years # 1
             cagr == project_cagr_rate(vs, ys)
             years_ahead == t - Last(ys)
             projection == MulFl[PowFl[AddQ[One, cagr], years_ahead], last_value]
         IN  IF first_value.n <= 0 THEN Ret(last_value)
             ELSE IF isnan THEN Ret(Zero)
             ELSE Ret(Clamp[projection])

----------------------------------------------------------------------------
(* RoboticsProjectionAnalyzer.ensemble_projection *)

alpha == Q[3, 10]
periods == 2
degree == 2

\* variant: the plain mean
weights_equal == <<Q[1, 4], Q[1, 4], Q[1, 4], Q[1, 4]>>

\* variant: weights that still add up to 1, one of them below zero
weights_signed == <<Q[-2, 10], Q[7, 10], Q[2, 10], Q[3, 10]>>

weights == <<Q[2, 10], Q[3, 10], Q[2, 10], Q[3, 10]>>

\* variant: the weighted sum divided by the number of values
np_average_by_count(a, w) ==
    DivQ[SumQ([i \in 1..Len(a) |-> MulQ[a[i], w[i]]]), R[Len(a)]]

\* np.average(a, weights=w) = sum(a * w) / sum(w)
np_average(a, w) ==
    DivQ[SumQ([i \in 1..Len(a) |-> MulQ[a[i], w[i]]]), SumQ(w)]

\* np.std(a) = sqrt(mean(abs(a - mean(a)) ** 2)), population form (ddof = 0)
np_std[a \in Seq(Rat)] ==
    LET n == Len(a)
        m == DivQ[SumQ(a), R[n]]
        dev(i) == LET x == SubQ[a[i], m] IN Fl[IF x.n < 0 THEN NegQ[x] ELSE x]
        var == Fl[DivQ[SumQ([i \in 1..n |-> MulFl[dev(i), dev(i)]]), R[n]]]
    IN  RootFl[var, 2]

NoResult ==
    [ensemble |-> Zero, linear |-> Zero, polynomial |-> Zero,
     exponential_smoothing |-> Zero, cagr |-> Zero, std |-> Zero]

\* the methods ensemble_projection calls, in the order of lines 103-115
MethodOrder == <<"project_linear_trend", "project_polynomial_trend",
                 "project_exponential_smoothing", "project_cagr">>

\* lines 118-129: the weighted average and the spread of the four outputs;
\* an exception of a call has left the method before, with the calls after it
\* not made (invoked lists the calls made)
Combine(linear, poly2, exp_smooth, cagr_proj) ==
    LET projections_list == <<linear.val, poly2.val, exp_smooth.val, cagr_proj.val>>
    IN  IF linear.exc # "none"
        THEN [exc |-> linear.exc, val |-> NoResult, invoked |-> SubSeq(MethodOrder, 1, 1)]
        ELSE IF poly2.exc # "none"
        THEN [exc |-> poly2.exc, val |-> NoResult, invoked |-> SubSeq(MethodOrder, 1, 2)]
        ELSE IF exp_smooth.exc # "none"
        THEN [exc |-> exp_smooth.exc, val |-> NoResult, invoked |-> SubSeq(MethodOrder, 1, 3)]
        ELSE IF cagr_proj.exc # "none"
        THEN [exc |-> cagr_proj.exc, val |-> NoResult, invoked |-> MethodOrder]
        ELSE [exc |-> "none",
              invoked |-> MethodOrder,
              val |-> [ensemble |-> np_average(projections_list, weights),
                       linear |-> linear.val,
                       polynomial |-> poly2.val,
                       exponential_smoothing |-> exp_smooth.val,
                       cagr |-> cagr_proj.val,
                       std |-> np_std[projections_list]]]

\* variant: the smoothing extrapolated up to the target year
ensemble_projection_to_target(vs, ys, t) ==
    Combine(project_linear_trend(vs, ys, t),
            project_polynomial_trend(vs, ys, degree, t),
            project_exponential_smoothing(vs, alpha, IF Len(ys) = 0 THEN periods ELSE t - Last(ys)),
            project_cagr(vs, ys, t))

\* the four methods are called in this order on the same series.  Line 107 as
\* written puts target_year after the keyword argument degree=2, which Python
\* does not parse; the call modelled is the one it spells out: degree 2 and
\* the same target_year as the other calls.
ensemble_projection(vs, ys, t) ==
    Combine(project_linear_trend(vs, ys, t),
            project_polynomial_trend(vs, ys, degree, t),
            project_exponential_smoothing(vs, alpha, periods),
            project_cagr(vs, ys, t))

----------------------------------------------------------------------------
(* RoboticsDataCollector: the dataset and its files *)

Tenths(s) == [i \in 1..Len(s) |-> Q[s[i], 10]]
Whole(s) == [i \in 1..Len(s) |-> R[s[i]]]

\* variant: range(2015, 2026)
hist_years_to_2025 == [i \in 1..11 |-> 2014 + i]

\* years = list(range(2015, 2025))
hist_years == [i \in 1..10 |-> 2014 + i]

global_cols == {"global_market_size", "industrial_robots", "service_robots",
                "medical_robots", "agricultural_robots"}
regional_cols == {"china", "japan", "south_korea", "germany", "usa", "rest_of_world"}
installations_cols == {"global_installations", "china_installations",
                       "industrial_installations", "service_installations"}

global_data ==
    [year |-> hist_years,
     cols |->
       [global_market_size |-> Tenths(<<248, 274, 311, 348, 382, 425, 478, 553, 632, 705>>),
        industrial_robots |-> Tenths(<<185, 202, 228, 251, 273, 302, 338, 389, 442, 491>>),
        service_robots |-> Tenths(<<32, 38, 45, 52, 61, 73, 85, 101, 120, 138>>),
        medical_robots |-> Tenths(<<18, 21, 24, 28, 32, 36, 41, 47, 53, 60>>),
        agricultural_robots |-> Tenths(<<13, 13, 14, 17, 16, 14, 14, 16, 17, 16>>)]]

regional_data ==
    [year |-> hist_years,
     cols |->
       [china |-> Tenths(<<68, 82, 101, 123, 145, 168, 195, 228, 265, 298>>),
        japan |-> Tenths(<<42, 45, 48, 51, 54, 57, 60, 64, 68, 72>>),
        south_korea |-> Tenths(<<21, 23, 25, 27, 29, 31, 33, 35, 37, 39>>),
        germany |-> Tenths(<<28, 30, 32, 34, 36, 38, 40, 43, 46, 49>>),
        usa |-> Tenths(<<35, 38, 41, 44, 47, 50, 54, 58, 62, 66>>),
        rest_of_world |-> Tenths(<<54, 56, 59, 63, 67, 71, 76, 82, 88, 95>>)]]

installations_data ==
    [year |-> hist_years,
     cols |->
       [global_installations |-> Whole(<<254, 294, 340, 381, 422, 465, 517, 553, 610, 680>>),
        china_installations |-> Whole(<<68, 87, 138, 154, 181, 194, 214, 268, 290, 320>>),
        industrial_installations |-> Whole(<<253, 293, 339, 380, 421, 464, 516, 552, 609, 679>>),
        service_installations |-> Tenths(<<54, 67, 82, 101, 125, 153, 187, 224, 268, 315>>)]]

\* the tuple (global_df, regional_df, installations_df)
FixedDataset ==
    [global |-> global_data, regional |-> regional_data, installations |-> installations_data]

FileNames == {"global", "regional", "installations"}
\* the order in which the three frames are validated, written and read
FileOrder == <<"global", "regional", "installations">>
ColumnsOf(f) ==
    IF f = "global" THEN global_cols
    ELSE IF f = "regional" THEN regional_cols
    ELSE installations_cols

\* a frame without rows: what read_csv gives for a file holding only the header
EmptyFrame(f) == [year |-> <<>>, cols |-> [c \in ColumnsOf(f) |-> <<>>]]

\* A CSV file holds text.  A number is written as its decimal digits: a cell
\* is the integer mant followed by a point exp places from its right end
\* ("24.8" is mant 248, exp 1; "254" is mant 254, exp 0).
Pow10[k \in Nat] == IF k = 0 THEN 1 ELSE 10 * Pow10[k - 1]

\* the number of decimal places repr() needs for a float of the model
ReprDigits[p \in Rat] ==
    LET q == Fl[p]
    IN  CHOOSE k \in 0..FlDigits :
            /\ Pow10[k] % q.d = 0
            /\ \A j \in 0..(k - 1) : Pow10[j] % q.d # 0

\* a column built from a list holding a float is float64, one of ints is int64
IsFloatColumn(col) == \E i \in 1..Len(col) : col[i].d # 1

\* variant: the floats written with float_format='%.0f', without decimals
FormatCell_no_decimals(p, isfloat) ==
    [mant |-> Fl[p].n \div Fl[p].d, exp |-> 0]

\* to_csv of one value: an int as its digits, a float by repr (at least one
\* decimal place: 6.0 is written "6.0")
FormatCell(p, isfloat) ==
    LET q == Fl[p]
        k == IF isfloat /\ ReprDigits[p] = 0 THEN 1 ELSE ReprDigits[p]
    IN  [mant |-> q.n * (Pow10[k] \div q.d), exp |-> k]

\* read_csv of one cell: the digits as an integer, divided by the power of ten
ParseCell(c) == Fl[Q[c.mant, Pow10[c.exp]]]

\* df.to_csv(path, index=False): the header and one line of cells per row
to_csv(t) ==
    [year |-> [i \in 1..Len(t.year) |-> [mant |-> t.year[i], exp |-> 0]],
     cols |-> [c \in DOMAIN t.cols |->
                  [i \in 1..Len(t.cols[c]) |->
                      FormatCell(t.cols[c][i], IsFloatColumn(t.cols[c]))]]]

\* pd.read_csv(path): the columns the header names, every cell parsed
read_csv(x) ==
    [year |-> [i \in 1..Len(x.year) |-> x.year[i].mant],
     cols |-> [c \in DOMAIN x.cols |->
                  [i \in 1..Len(x.cols[c]) |-> ParseCell(x.cols[c][i])]]]

Absent(f) == [exists |-> FALSE, table |-> EmptyFrame(f)]
Stored(t) == [exists |-> TRUE, table |-> t]
NoFiles == [f \in FileNames |-> Absent(f)]
\* what stands for the tables of a call that raised
NoTables == [f \in FileNames |-> EmptyFrame(f)]

\* What the storage does to a call is given with the call.  A fault names the
\* write (or read) of FileOrder that fails, at = 0 for none, and the exception
\* it fails with: FileNotFoundError, or an OSError of another kind.  A write
\* that fails leaves its file as it was.
NoFault == [at |-> 0, kind |-> "none"]
FaultKinds == {"FileNotFoundError", "OSError"}
Faults == {NoFault} \cup [at : 1..3, kind : FaultKinds]

Write(f) == <<"write", f>>
Read(f) == <<"read", f>>

\* the call of _validate_dataframes on the three frames, as a step of a method
Validation == <<"validate", "frames">>

\* _validate_dataframes: a required column missing or no rows is a ValueError
\* (the year column is part of every frame of the model; nulls only warn)
validate_dataframes(dfs) ==
    IF \E f \in FileNames :
           \/ ~(ColumnsOf(f) \subseteq DOMAIN dfs[f].cols)
           \/ Len(dfs[f].year) = 0
    THEN "ValueError" ELSE "none"

\* variant: the frames appended to what the files hold (to_csv with mode='a')
\* and the table returned read back from them
generate_historical_data_appending(fs, fault) ==
    LET grown(f) ==
            IF fs[f].exists
            THEN [year |-> fs[f].table.year \o to_csv(FixedDataset[f]).year,
                  cols |-> [c \in ColumnsOf(f) |->
                               (IF c \in DOMAIN fs[f].table.cols
                                THEN fs[f].table.cols[c] ELSE <<>>)
                               \o to_csv(FixedDataset[f]).cols[c]]]
            ELSE to_csv(FixedDataset[f])
    IN  [exc |-> "none",
         ret |-> FixedDataset,
         files |-> [f \in FileNames |-> Stored(grown(f))],
         io |-> [i \in 1..3 |-> Write(FileOrder[i])],
         steps |-> <<Validation>> \o [i \in 1..3 |-> Write(FileOrder[i])]]

\* variant: the frames written first and validated afterwards
generate_historical_data_validating_last(fs, fault) ==
    LET dfs == FixedDataset
        n == IF fault.at = 0 THEN 3 ELSE fault.at - 1
        done == {FileOrder[i] : i \in 1..n}
        writes == [i \in 1..(IF fault.at = 0 THEN 3 ELSE fault.at) |-> Write(FileOrder[i])]
        stored == [f \in FileNames |-> IF f \in done THEN Stored(to_csv(dfs[f])) ELSE fs[f]]
    IN  IF fault.at # 0
        THEN [exc |-> fault.kind, ret |-> NoTables, files |-> stored, io |-> writes,
              steps |-> writes]
        ELSE [exc |-> validate_dataframes(dfs),
              ret |-> IF validate_dataframes(dfs) = "none" THEN dfs ELSE NoTables,
              files |-> stored, io |-> writes, steps |-> writes \o <<Validation>>]

\* generate_historical_data: the literal frames are validated, then written
\* over the three files one after the other; the exception of a write leaves
\* the method (logged and raised again by lines 146-148) with the files
\* before it written.  steps lists what the method did in the order it did
\* it: the call of _validate_dataframes (line 128), then the to_csv calls
\* (lines 135-137)
generate_historical_data(fs, fault) ==
    LET dfs == FixedDataset
        n == IF fault.at = 0 THEN 3 ELSE fault.at - 1
        done == {FileOrder[i] : i \in 1..n}
        tried == IF fault.at = 0 THEN 3 ELSE fault.at
    IN  IF validate_dataframes(dfs) # "none"
        THEN [exc |-> validate_dataframes(dfs), ret |-> NoTables,
              files |-> fs, io |-> <<>>, steps |-> <<Validation>>]
        ELSE [exc |-> fault.kind,
              ret |-> IF fault.at = 0 THEN dfs ELSE NoTables,
              files |-> [f \in FileNames |->
                            IF f \in done THEN Stored(to_csv(dfs[f])) ELSE fs[f]],
              io |-> [i \in 1..tried |-> Write(FileOrder[i])],
              steps |-> <<Validation>> \o [i \in 1..tried |-> Write(FileOrder[i])]]

\* the three files as generate_historical_data leaves them
GeneratedFiles == generate_historical_data(NoFiles, NoFault).files

Frames(fs) == [f \in FileNames |-> read_csv(fs[f].table)]

\* the end of a load_data that went through generate_historical_data
Generated(g, n, before) ==
    [exc |-> g.exc, ret |-> g.ret, files |-> g.files, io |-> before \o g.io, gens |-> n,
     steps |-> g.steps]

\* variant: the files generated afresh on every load
load_data_regenerating(fs, rfault, fault1, fault2) ==
    Generated(generate_historical_data(fs, NoFault), 1, <<>>)

\* load_data.  Lines 206-208: one of the three files missing, the data is
\* generated (inside the try).  Lines 211-216: the three files are read and
\* returned as read.  Lines 218-220: a FileNotFoundError raised anywhere in
\* the try, by a read or by the generation of line 208, is answered by
\* generate_historical_data(); an exception of that call leaves load_data.
\* Lines 221-223: any other exception is logged and raised again.
\* rfault is what the storage does to the reads (a file that is not found at
\* its read was removed after line 206), fault1 and fault2 what it does to the
\* first and the second generation.
load_data(fs, rfault, fault1, fault2) ==
    LET missing == \E f \in FileNames : ~fs[f].exists
        reads == [i \in 1..(IF rfault.at = 0 THEN 3 ELSE rfault.at) |-> Read(FileOrder[i])]
        gone == [fs EXCEPT ![FileOrder[rfault.at]] = Absent(FileOrder[rfault.at])]
    IN  IF missing
        THEN \* line 208
             IF fault1.at # 0 /\ fault1.kind = "FileNotFoundError"
             THEN \* line 220
                  [Generated(generate_historical_data(
                                 generate_historical_data(fs, fault1).files, fault2), 2,
                             generate_historical_data(fs, fault1).io)
                   EXCEPT !.steps = generate_historical_data(fs, fault1).steps \o @]
             ELSE Generated(generate_historical_data(fs, fault1), 1, <<>>)
        ELSE IF rfault.at = 0
        THEN [exc |-> "none", ret |-> Frames(fs), files |-> fs, io |-> reads, gens |-> 0,
              steps |-> <<>>]
        ELSE IF rfault.kind = "FileNotFoundError"
        THEN Generated(generate_historical_data(gone, fault1), 1, reads)
        ELSE [exc |-> rfault.kind, ret |-> NoTables, files |-> fs, io |-> reads, gens |-> 0,
              steps |-> <<>>]


\* no table
NoTable == [year |-> <<>>, cols |-> [c \in {} |-> <<>>]]

\* float64 values that are not numbers of the model: nan and the infinities
NaN == [n |-> 0, d |-> 0]
PosInf == [n |-> 1, d |-> 0]
NegInf == [n |-> -1, d |-> 0]

\* Series.pct_change() * 100: the first row has no row before it; x / 0 is
\* an infinity, 0 / 0 is nan
PctChange(v) ==
    [i \in 1..Len(v) |->
        IF i = 1 THEN NaN
        ELSE IF v[i - 1].n = 0
        THEN (IF v[i].n = 0 THEN NaN ELSE IF v[i].n > 0 THEN PosInf ELSE NegInf)
        ELSE MulFl[SubQ[Fl[DivQ[v[i], v[i - 1]]], One], R[100]]]

\* variant: the growth spread over the number of rows instead of rows - 1
GrowthCagr_by_rows(v) ==
    LET ratio == Fl[DivQ[v[Len(v)], v[1]]]
    IN  IF v[1].n > 0
        THEN (IF ratio.n < 0 THEN NaN
              ELSE MulFl[SubQ[RootFl[ratio, Len(v)], One], R[100]])
        ELSE NaN

\* variant: no test of the first value
GrowthCagr_unguarded(v) ==
    LET n_years == Len(v) - 1
        ratio == Fl[DivQ[v[Len(v)], v[1]]]
    IN  IF v[1].n = 0 THEN (IF v[Len(v)].n = 0 THEN NaN ELSE PosInf)
        ELSE IF ratio.n < 0 /\ n_years # 1 THEN NaN
        ELSE MulFl[SubQ[RootFl[ratio, n_years], One], R[100]]

\* lines 248-254: ((last_value / first_value) ** (1 / years) - 1) * 100 with
\* years = len(df) - 1 when the first value is > 0, nan otherwise; a negative
\* base with a fractional exponent is nan
GrowthCagr(v) ==
    LET n_years == Len(v) - 1
        first_value == v[1]
        last_value == v[Len(v)]
        ratio == Fl[DivQ[last_value, first_value]]
    IN  IF first_value.n > 0
        THEN (IF ratio.n < 0 /\ n_years # 1 THEN NaN
              ELSE MulFl[SubQ[RootFl[ratio, n_years], One], R[100]])
        ELSE NaN

ColumnNotFound == "Column not found in dataframe"
TooFewRows == "DataFrame must have at least 2 rows to calculate growth rates"
Failed(e, m, t) == [exc |-> e, msg |-> m, ret |-> NoTable, df |-> t]

\* variant: the number of rows tested before the column
calculate_growth_rates_rows_first(t, value_column) ==
    IF Len(t.year) < 2 THEN Failed("ValueError", TooFewRows, t)
    ELSE IF value_column \notin DOMAIN t.cols THEN Failed("ValueError", ColumnNotFound, t)
    ELSE [exc |-> "none", msg |-> "",
          ret |-> [year |-> t.year,
                   cols |-> [c \in DOMAIN t.cols \cup {"growth_rate", "cagr"} |->
                                IF c = "growth_rate" THEN PctChange(t.cols[value_column])
                                ELSE IF c = "cagr"
                                THEN [i \in 1..Len(t.year) |-> GrowthCagr(t.cols[value_column])]
                                ELSE t.cols[c]]],
          df |-> t]

\* variant: no copy, the two columns added to the caller's table
calculate_growth_rates_in_place(t, value_column) ==
    IF value_column \notin DOMAIN t.cols THEN Failed("ValueError", ColumnNotFound, t)
    ELSE IF Len(t.year) < 2 THEN Failed("ValueError", TooFewRows, t)
    ELSE LET out == [year |-> t.year,
                     cols |-> [c \in DOMAIN t.cols \cup {"growth_rate", "cagr"} |->
                                  IF c = "growth_rate" THEN PctChange(t.cols[value_column])
                                  ELSE IF c = "cagr"
                                  THEN [i \in 1..Len(t.year) |-> GrowthCagr(t.cols[value_column])]
                                  ELSE t.cols[c]]]
         IN  [exc |-> "none", msg |-> "", ret |-> out, df |-> out]

\* calculate_growth_rates(df, value_column): ret is the table returned, df the
\* caller's table after the call (the columns are added to a copy, line 245)
calculate_growth_rates(t, value_column) ==
    IF value_column \notin DOMAIN t.cols THEN Failed("ValueError", ColumnNotFound, t)
    ELSE IF Len(t.year) < 2 THEN Failed("ValueError", TooFewRows, t)
    ELSE [exc |-> "none", msg |-> "",
          ret |-> [year |-> t.year,
                   cols |-> [c \in DOMAIN t.cols \cup {"growth_rate", "cagr"} |->
                                IF c = "growth_rate" THEN PctChange(t.cols[value_column])
                                ELSE IF c = "cagr"
                                THEN [i \in 1..Len(t.year) |-> GrowthCagr(t.cols[value_column])]
                                ELSE t.cols[c]]],
          df |-> t]

----------------------------------------------------------------------------
(* RoboticsProjectionAnalyzer.generate_2026_projections, one step per       *)
(* statement that changes the dict, and the files changing under it         *)

TargetYear == 2026

segments == <<"industrial_robots", "service_robots", "medical_robots", "agricultural_robots">>
regions == <<"china", "japan", "south_korea", "germany", "usa", "rest_of_world">>
\* variant: a list that names one installation type twice
installation_types_repeated == <<"global_installations", "china_installations",
                                 "industrial_installations", "industrial_installations">>
installation_types == <<"global_installations", "china_installations",
                        "industrial_installations", "service_installations">>

MetricNames == global_cols \cup regional_cols \cup installations_cols
FieldNames == {"ensemble", "linear", "polynomial", "exponential_smoothing", "cagr", "std"}

\* variant: a series that takes its first value from the first column read
\* of the same frame
Column_leaky(data, f, c) ==
    LET own == data[f].cols[c]
        other == data[f].cols[IF f = "global" THEN "global_market_size"
                              ELSE IF f = "regional" THEN "china"
                              ELSE "global_installations"]
    IN  [i \in 1..Len(own) |-> IF i = 1 THEN other[1] ELSE own[i]]

\* df[column].values
Column(data, f, c) == data[f].cols[c]

EmptyDict == [k \in {} |-> NoResult]
NoInserts == [k \in MetricNames |-> 0]
NoRun == [valid |-> FALSE, data |-> FixedDataset, projections |-> EmptyDict]
NoCall == [method |-> "none", exc |-> "none", ret |-> Zero, result |-> NoResult,
           invoked |-> <<>>]

\* the files the analyzer writes: data/processed/projections_2026.csv and
\* outputs/reports/projection_report_2026.txt
NoOutputs == [projections_csv |-> [exists |-> FALSE, rows |-> <<>>],
              report |-> [exists |-> FALSE, total_regional |-> Zero, total_segments |-> Zero]]

\* no call of the collector yet
NoOp == [name |-> "none", exc |-> "none", ret |-> NoTables, gens |-> 0, io |-> <<>>,
         steps |-> <<>>,
         before |-> NoFiles, after |-> NoFiles, env |-> <<NoFault, NoFault, NoFault>>]
\* config.py lines 83-88: the directories _create_directories makes
Directories == {"raw", "processed", "figures", "reports"}

\* what the program leaves on disk, and the directory each is written to
Artefacts == {"data", "projections_csv", "report", "figures", "dashboards"}
DirectoryOf(a) ==
    CASE a = "data" -> "raw"
      [] a = "projections_csv" -> "processed"
      [] a = "report" -> "reports"
      [] OTHER -> "figures"

NoExit == [code |-> -1, exc |-> "none", why |-> "none"]
NoCollector == [constructed |-> FALSE, raw_dir |-> FALSE, processed_dir |-> FALSE]

\* the command line program not started
CliInit ==
    /\ argv = <<>>
    /\ cli_pc = "off"
    /\ completed = <<>>
    /\ exit = NoExit
    /\ dirs = {}
    /\ removed = {}
    /\ disk = {}
    /\ collector = NoCollector

CollectorInit ==
    /\ op = NoOp
    /\ prev_op = NoOp

MaxRuns == 2
MaxEdits == 1

DriverInit ==
    /\ pc = "idle"
    /\ idx = 1
    /\ historical_data = FixedDataset
    /\ projections = EmptyDict
    /\ inserts = NoInserts
    /\ raised = "none"
    /\ last_run = NoRun
    /\ runs = 0
    /\ edits = 0
    /\ io = <<>>
    /\ outputs = NoOutputs

\* global_df, regional_df, installations_df = self.load_historical_data(); projections = {}
Load ==
    /\ pc = "idle"
    /\ runs < MaxRuns
    /\ \E loaded \in {load_data(files, NoFault, NoFault, NoFault)} :
         /\ files' = loaded.files
         /\ historical_data' = loaded.ret
         /\ io' = loaded.io
    /\ projections' = EmptyDict
    /\ inserts' = NoInserts
    /\ raised' = "none"
    /\ runs' = runs + 1
    /\ pc' = "global"
    /\ idx' = 1
    /\ UNCHANGED <<last_run, edits, outputs>>
    /\ UNCHANGED hvars
    /\ UNCHANGED cvars
    /\ UNCHANGED kvars

\* for key in keys: projections[key] = self.ensemble_projection(df[key].values,
\* df['year'].values, 2026); an exception of the call leaves generate_2026_projections
Project(f, keys, after) ==
    \E proj \in {IF keys[idx] \in DOMAIN historical_data[f].cols
                 THEN ensemble_projection(Column(historical_data, f, keys[idx]),
                                          historical_data[f].year, TargetYear)
                 ELSE [exc |-> "KeyError", val |-> NoResult, invoked |-> <<>>]} :
        /\ IF proj.exc # "none"
           THEN /\ raised' = proj.exc
                /\ pc' = "idle"
                /\ idx' = 1
                /\ UNCHANGED <<projections, inserts>>
           ELSE /\ projections' =
                       [k \in DOMAIN projections \cup {keys[idx]} |->
                           IF k = keys[idx] THEN proj.val ELSE projections[k]]
                /\ inserts' = [inserts EXCEPT ![keys[idx]] = @ + 1]
                /\ pc' = IF idx < Len(keys) THEN pc ELSE after
                /\ idx' = IF idx < Len(keys) THEN idx + 1 ELSE 1
                /\ UNCHANGED raised
        /\ io' = <<>>
        /\ UNCHANGED <<files, historical_data, last_run, runs, edits, outputs>>
        /\ UNCHANGED hvars
        /\ UNCHANGED cvars
    /\ UNCHANGED kvars

ProjectGlobal ==
    /\ pc = "global"
    /\ Project("global", <<"global_market_size">>, "segments")

ProjectSegment ==
    /\ pc = "segments"
    /\ Project("global", segments, "regions")

ProjectRegion ==
    /\ pc = "regions"
    /\ Project("regional", regions, "installations")

ProjectInstallation ==
    /\ pc = "installations"
    /\ Project("installations", installation_types, "return")

\* variant: the mapping saved to the CSV file before it is returned
Return_saving ==
    /\ pc = "return"
    /\ last_run' = [valid |-> TRUE, data |-> historical_data, projections |-> projections]
    /\ pc' = "save"
    /\ io' = <<Write("projections_csv")>>
    /\ outputs' = [outputs EXCEPT !.projections_csv = [exists |-> TRUE, rows |-> <<>>]]
    /\ UNCHANGED <<files, idx, historical_data, projections, inserts, raised, runs, edits>>
    /\ UNCHANGED hvars
    /\ UNCHANGED cvars
    /\ UNCHANGED kvars

\* return projections
Return ==
    /\ pc = "return"
    /\ last_run' = [valid |-> TRUE, data |-> historical_data, projections |-> projections]
    /\ pc' = "save"
    /\ io' = <<>>
    /\ UNCHANGED <<files, idx, historical_data, projections, inserts, raised, runs, edits,
                   outputs>>
    /\ UNCHANGED hvars
    /\ UNCHANGED cvars
    /\ UNCHANGED kvars

\* the keys of the mapping in the order they were inserted
KeyOrder == <<"global_market_size">> \o segments \o regions \o installation_types

\* save_projections: one row per key of the mapping, written with to_csv
ProjectionRow(key, value) ==
    [metric |-> key,
     projection_2026 |-> FormatCell(value.ensemble, TRUE),
     linear |-> FormatCell(value.linear, TRUE),
     polynomial |-> FormatCell(value.polynomial, TRUE),
     exponential_smoothing |-> FormatCell(value.exponential_smoothing, TRUE),
     cagr |-> FormatCell(value.cagr, TRUE),
     std_deviation |-> FormatCell(value.std, TRUE)]

\* projection_df = analyzer.save_projections(projections), called with the
\* mapping generate_2026_projections returned
SaveProjections ==
    /\ pc = "save"
    /\ outputs' = [outputs EXCEPT !.projections_csv =
                      [exists |-> TRUE,
                       rows |-> [i \in 1..Len(KeyOrder) |->
                                    ProjectionRow(KeyOrder[i], projections[KeyOrder[i]])]]]
    /\ io' = <<Write("projections_csv")>>
    /\ pc' = "report"
    /\ UNCHANGED <<files, idx, historical_data, projections, inserts, raised, last_run,
                   runs, edits>>
    /\ UNCHANGED hvars
    /\ UNCHANGED cvars
    /\ UNCHANGED kvars

\* report = analyzer.create_projection_report(projections), written to the
\* report file; of the text, the two totals it computes are kept
WriteReport ==
    /\ pc = "report"
    /\ outputs' = [outputs EXCEPT !.report =
                      [exists |-> TRUE,
                       total_regional |->
                           SumQ([i \in 1..Len(regions) |-> projections[regions[i]].ensemble]),
                       total_segments |->
                           SumQ([i \in 1..Len(segments) |-> projections[segments[i]].ensemble])]]
    /\ io' = <<Write("report")>>
    /\ pc' = "idle"
    /\ UNCHANGED <<files, idx, historical_data, projections, inserts, raised, last_run,
                   runs, edits>>
    /\ UNCHANGED hvars
    /\ UNCHANGED cvars
    /\ UNCHANGED kvars

\* what may happen to the files between two runs: a value of a column is
\* rewritten, a file loses its rows, a file is removed
EditColumns == {"global_market_size", "service_robots", "china", "service_installations"}
EditValues == {Zero}

EditFile ==
    /\ pc = "idle"
    /\ edits < MaxEdits
    /\ \E f \in FileNames : \E c \in DOMAIN files[f].table.cols \cap EditColumns :
       \E v \in EditValues :
         /\ files[f].exists
         /\ Len(files[f].table.cols[c]) > 0
         /\ \E i \in {1, Len(files[f].table.cols[c])} :
              /\ files[f].table.cols[c][i] # FormatCell(v, TRUE)
              /\ files' = [files EXCEPT ![f].table.cols[c][i] = FormatCell(v, TRUE)]
    /\ edits' = edits + 1
    /\ io' = <<>>
    /\ UNCHANGED <<pc, idx, historical_data, projections, inserts, raised, last_run, runs,
                   outputs>>
    /\ UNCHANGED hvars
    /\ UNCHANGED cvars
    /\ UNCHANGED kvars

TruncateFile ==
    /\ pc = "idle"
    /\ edits < MaxEdits
    /\ \E f \in FileNames :
         /\ files[f].exists
         /\ files[f].table # EmptyFrame(f)
         /\ files' = [files EXCEPT ![f] = Stored(EmptyFrame(f))]
    /\ edits' = edits + 1
    /\ io' = <<>>
    /\ UNCHANGED <<pc, idx, historical_data, projections, inserts, raised, last_run, runs,
                   outputs>>
    /\ UNCHANGED hvars
    /\ UNCHANGED cvars
    /\ UNCHANGED kvars

RemoveFile ==
    /\ pc = "idle"
    /\ edits < MaxEdits
    /\ \E f \in FileNames :
         /\ files[f].exists
         /\ files' = [files EXCEPT ![f] = Absent(f)]
    /\ edits' = edits + 1
    /\ io' = <<>>
    /\ UNCHANGED <<pc, idx, historical_data, projections, inserts, raised, last_run, runs,
                   outputs>>
    /\ UNCHANGED hvars
    /\ UNCHANGED cvars
    /\ UNCHANGED kvars

\* a file that lost one of its columns
DropColumn ==
    /\ pc = "idle"
    /\ edits < MaxEdits
    /\ \E f \in FileNames : \E c \in DOMAIN files[f].table.cols \cap EditColumns :
         /\ files[f].exists
         /\ files' = [files EXCEPT ![f].table.cols =
                         [k \in (DOMAIN files[f].table.cols) \ {c} |-> files[f].table.cols[k]]]
    /\ edits' = edits + 1
    /\ io' = <<>>
    /\ UNCHANGED <<pc, idx, historical_data, projections, inserts, raised, last_run, runs,
                   outputs>>
    /\ UNCHANGED hvars
    /\ UNCHANGED cvars
    /\ UNCHANGED kvars

Init ==
    /\ values = <<>>
    /\ years = <<>>
    /\ target_year = TargetYear
    /\ call = NoCall
    /\ files \in {NoFiles, GeneratedFiles}
    /\ DriverInit
    /\ CollectorInit
    /\ CliInit
    /\ df = NoTable

Next ==
    \/ Load
    \/ ProjectGlobal
    \/ ProjectSegment
    \/ ProjectRegion
    \/ ProjectInstallation
    \/ Return
    \/ SaveProjections
    \/ WriteReport
    \/ EditFile
    \/ TruncateFile
    \/ RemoveFile
    \/ DropColumn

Spec == Init /\ [][Next]_vars

----------------------------------------------------------------------------
(* The projection methods called on their own, on every series of a small   *)
(* family and on the series the documentation works out                     *)

MaxLen == 3
BaseYear == 2020
ValueSet == {R[-1], R[0], R[1], R[2]}
GapSet == {1, 2}
AheadSet == {0, 1, 2}

\* strictly increasing years from BaseYear on, the steps taken from GapSet
YearSeqs(n) ==
    IF n = 0 THEN {<<>>}
    ELSE {[i \in 1..n |-> BaseYear + SumInt(SubSeq(g, 1, i - 1))] : g \in [1..(n - 1) -> GapSet]}

Inputs ==
    UNION {
        {[values |-> vs, years |-> ys,
          target_year |-> IF n = 0 THEN BaseYear + a ELSE ys[n] + a] :
            vs \in [1..n -> ValueSet], ys \in YearSeqs(n), a \in AheadSet} :
        n \in 0..MaxLen}

WorkedInputs ==
    {[values |-> Whole(<<100, 110, 121>>), years |-> <<2020, 2021, 2022>>, target_year |-> 2024],
     [values |-> Whole(<<10, 20>>), years |-> <<2020, 2021>>, target_year |-> 2023],
     [values |-> Whole(<<100, 110>>), years |-> <<2020, 2021>>, target_year |-> 2022]}

InitMethods ==
    /\ \E in \in Inputs \cup WorkedInputs :
         /\ values = in.values
         /\ years = in.years
         /\ target_year = in.target_year
    /\ call = NoCall
    /\ files = GeneratedFiles
    /\ DriverInit
    /\ CollectorInit
    /\ CliInit
    /\ df = [year |-> years, cols |-> [c \in {"value"} |-> values]]

Returned(m, r) ==
    [method |-> m, exc |-> r.exc, ret |-> r.val, result |-> NoResult, invoked |-> <<m>>]

CallLinear ==
    /\ call.method = "none"
    /\ op.name = "none"
    /\ call' = Returned("project_linear_trend", project_linear_trend(values, years, target_year))
    /\ UNCHANGED <<values, years, target_year>>
    /\ UNCHANGED dvars
    /\ UNCHANGED cvars
    /\ UNCHANGED kvars

CallPolynomial ==
    /\ call.method = "none"
    /\ op.name = "none"
    /\ call' = Returned("project_polynomial_trend",
                        project_polynomial_trend(values, years, degree, target_year))
    /\ UNCHANGED <<values, years, target_year>>
    /\ UNCHANGED dvars
    /\ UNCHANGED cvars
    /\ UNCHANGED kvars

CallExponentialSmoothing ==
    /\ call.method = "none"
    /\ op.name = "none"
    /\ call' = Returned("project_exponential_smoothing",
                        project_exponential_smoothing(values, alpha, periods))
    /\ UNCHANGED <<values, years, target_year>>
    /\ UNCHANGED dvars
    /\ UNCHANGED cvars
    /\ UNCHANGED kvars

CallCagr ==
    /\ call.method = "none"
    /\ op.name = "none"
    /\ call' = Returned("project_cagr", project_cagr(values, years, target_year))
    /\ UNCHANGED <<values, years, target_year>>
    /\ UNCHANGED dvars
    /\ UNCHANGED cvars
    /\ UNCHANGED kvars

CallEnsemble ==
    /\ call.method = "none"
    /\ op.name = "none"
    /\ \E r \in {ensemble_projection(values, years, target_year)} :
         call' = [method |-> "ensemble_projection", exc |-> r.exc,
                  ret |-> r.val.ensemble, result |-> r.val, invoked |-> r.invoked]
    /\ UNCHANGED <<values, years, target_year>>
    /\ UNCHANGED dvars
    /\ UNCHANGED cvars
    /\ UNCHANGED kvars

\* the columns a caller may name: the one the table has and one it has not
ColumnNames == {"value", "nonexistent_column"}

\* collector.calculate_growth_rates(df, value_column) on the table made of the
\* years and the values
CallGrowthRates ==
    /\ call.method = "none"
    /\ op.name = "none"
    /\ \E value_column \in ColumnNames :
       \E r \in {calculate_growth_rates(df, value_column)} :
         /\ op' = [name |-> "calculate_growth_rates", exc |-> r.exc, msg |-> r.msg,
                   ret |-> r.ret, value_column |-> value_column, before |-> df]
         /\ df' = r.df
    /\ UNCHANGED prev_op
    /\ UNCHANGED hvars
    /\ UNCHANGED dvars
    /\ UNCHANGED kvars

NextMethods ==
    \/ CallGrowthRates
    \/ CallLinear
    \/ CallPolynomial
    \/ CallExponentialSmoothing
    \/ CallCagr
    \/ CallEnsemble

SpecMethods == InitMethods /\ [][NextMethods]_vars

----------------------------------------------------------------------------------------------------------------------------------------
(* The collector called on its own: generate_historical_data and load_data, *)
(* one call and then another, over the files as they may be found on disk   *)
(* and on a storage that may fail                                           *)

\* the three files as the program left them, and after one change made to
\* them from outside: a file removed, a file cut to its header, a column
\* gone, a value rewritten
InitialFiles ==
    {NoFiles, GeneratedFiles}
    \cup {[GeneratedFiles EXCEPT ![f] = Absent(f)] : f \in FileNames}
    \cup {[GeneratedFiles EXCEPT ![f] = Stored(EmptyFrame(f))] : f \in FileNames}
    \cup UNION {{[GeneratedFiles EXCEPT ![f].table.cols =
                     [k \in ColumnsOf(f) \ {c} |-> GeneratedFiles[f].table.cols[k]]] :
                 c \in ColumnsOf(f) \cap EditColumns} : f \in FileNames}
    \cup UNION {{[GeneratedFiles EXCEPT ![f].table.cols[c][1] = FormatCell(v, TRUE)] :
                 c \in ColumnsOf(f) \cap EditColumns, v \in EditValues} : f \in FileNames}

InitCollector ==
    /\ values = <<>>
    /\ years = <<>>
    /\ target_year = TargetYear
    /\ call = NoCall
    /\ files \in InitialFiles
    /\ DriverInit
    /\ CollectorInit
    /\ CliInit
    /\ df = NoTable

\* what the storage may do to one load_data: the reads can fail when the three
\* files are there, the generations when they are called
LoadEnvs(fs) ==
    IF \E f \in FileNames : ~fs[f].exists
    THEN {e \in {NoFault} \X Faults \X Faults :
             e[2].kind # "FileNotFoundError" => e[3] = NoFault}
    ELSE {e \in Faults \X Faults \X {NoFault} :
             e[1].kind # "FileNotFoundError" => e[2] = NoFault}

Called(name, r, before, env) ==
    [name |-> name, exc |-> r.exc, ret |-> r.ret, gens |-> r.gens, io |-> r.io,
     steps |-> r.steps,
     before |-> before, after |-> r.files, env |-> env]

CallGenerate ==
    /\ prev_op.name = "none"
    /\ \E fault \in Faults :
       \E g \in {generate_historical_data(files, fault)} :
         /\ files' = g.files
         /\ io' = g.io
         /\ op' = Called("generate_historical_data", Generated(g, 1, <<>>), files,
                      <<NoFault, fault, NoFault>>)
    /\ prev_op' = op
    /\ UNCHANGED <<pc, idx, historical_data, projections, inserts, raised, last_run, runs,
                   edits, outputs, df>>
    /\ UNCHANGED hvars
    /\ UNCHANGED kvars

CallLoad ==
    /\ prev_op.name = "none"
    /\ \E env \in LoadEnvs(files) :
       \E loaded \in {load_data(files, env[1], env[2], env[3])} :
         /\ files' = loaded.files
         /\ io' = loaded.io
         /\ op' = Called("load_data", loaded, files, env)
    /\ prev_op' = op
    /\ UNCHANGED <<pc, idx, historical_data, projections, inserts, raised, last_run, runs,
                   edits, outputs, df>>
    /\ UNCHANGED hvars
    /\ UNCHANGED kvars

NextCollector ==
    \/ CallGenerate
    \/ CallLoad

SpecCollector == InitCollector /\ [][NextCollector]_vars

----------------------------------------------------------------------------
(* The command line program: cli.main, the five commands and the pipeline   *)
(* of run_analysis.main, one step per call a command makes, over            *)
(* directories that may be removed while the program runs                   *)

Commands == {"run", "data", "projections", "visualize", "dashboard"}
DashboardTypes == {"comprehensive", "executive", "all"}

\* the command lines tried
Argvs ==
    {<<>>, <<"-v">>, <<"run">>, <<"-v", "run">>, <<"data">>, <<"projections">>,
     <<"projections", "--report">>, <<"visualize">>, <<"dashboard">>,
     <<"dashboard", "--type", "comprehensive">>, <<"dashboard", "--type", "executive">>,
     <<"dashboard", "--type", "weekly">>, <<"--version">>, <<"--help">>, <<"report">>,
     <<"data", "--report">>}

Usage(code) == [status |-> "SystemExit", code |-> code, command |-> "", report |-> FALSE,
                type |-> "all"]
Parsed(c, report, type) == [status |-> "ok", code |-> 0, command |-> c, report |-> report,
                            type |-> type]

\* create_parser().parse_args(args): argparse leaves by SystemExit, with
\* status 0 after printing the version or the help, with status 2 on
\* arguments it does not accept; a command line without a command is accepted
\* (command is None)
parse_args(args) ==
    LET rest == IF args # <<>> /\ args[1] \in {"-v", "--verbose"} THEN Tail(args) ELSE args
        opts == IF rest = <<>> THEN <<>> ELSE Tail(rest)
    IN  IF rest = <<>> THEN Parsed("", FALSE, "all")
        ELSE IF rest[1] \in {"--version", "-h", "--help"} THEN Usage(0)
        ELSE IF rest[1] \notin Commands THEN Usage(2)
        ELSE IF rest[1] = "projections"
        THEN (IF opts = <<>> THEN Parsed("projections", FALSE, "all")
              ELSE IF opts = <<"--report">> THEN Parsed("projections", TRUE, "all")
              ELSE Usage(2))
        ELSE IF rest[1] = "dashboard"
        THEN (IF opts = <<>> THEN Parsed("dashboard", FALSE, "all")
              ELSE IF Len(opts) = 2 /\ opts[1] = "--type" /\ opts[2] \in DashboardTypes
              THEN Parsed("dashboard", FALSE, opts[2])
              ELSE Usage(2))
        ELSE IF opts = <<>> THEN Parsed(rest[1], FALSE, "all") ELSE Usage(2)

\* a call a command makes: the callable and the argument it is given
Step(c, a) == [call |-> c, arg |-> a]

\* run_analysis.main, lines 47-102
run_full_analysis ==
    <<Step("RoboticsDataCollector", "config"), Step("generate_historical_data", ""),
      Step("RoboticsProjectionAnalyzer", "config"), Step("generate_2026_projections", ""),
      Step("save_projections", ""), Step("write_report", ""),
      Step("RoboticsVisualizer", "config"), Step("create_all_visualizations", ""),
      Step("RoboticsDashboard", "config"), Step("save_dashboard", "comprehensive"),
      Step("save_dashboard", "executive")>>

cmd_generate_data ==
    <<Step("RoboticsDataCollector", ""), Step("generate_historical_data", "")>>

\* the report of cmd_projections is printed, not written
cmd_projections(report) ==
    <<Step("RoboticsProjectionAnalyzer", ""), Step("generate_2026_projections", ""),
      Step("save_projections", "")>>
    \o (IF report THEN <<Step("create_projection_report", "")>> ELSE <<>>)

cmd_visualize ==
    <<Step("RoboticsVisualizer", ""), Step("create_all_visualizations", "")>>

cmd_dashboard(type) ==
    <<Step("RoboticsDashboard", "")>>
    \o (IF type \in {"all", "comprehensive"} THEN <<Step("save_dashboard", "comprehensive")>>
        ELSE <<>>)
    \o (IF type \in {"all", "executive"} THEN <<Step("save_dashboard", "executive")>>
        ELSE <<>>)

\* the calls of the command parsed_args.func
StepsOf(parsed) ==
    CASE parsed.command = "run" -> run_full_analysis
      [] parsed.command = "data" -> cmd_generate_data
      [] parsed.command = "projections" -> cmd_projections(parsed.report)
      [] parsed.command = "visualize" -> cmd_visualize
      [] parsed.command = "dashboard" -> cmd_dashboard(parsed.type)
      [] OTHER -> <<>>

\* One call on the directories ds and the artefacts on: the exception it
\* raises, the directories and artefacts it leaves, whether it constructed a
\* collector.  RoboticsProjectionAnalyzer.__init__(self) takes no argument
\* and makes data/processed; the constructors of the visualizer and of the
\* dashboard construct a collector and then call
\* RoboticsProjectionAnalyzer(self.config); a file cannot be written into a
\* directory that is not there.
Execute(s, ds, on) ==
    LET ok(ds2, on2, c) == [exc |-> "none", dirs |-> ds2, disk |-> on2, constructs |-> c]
        fails(e, c) == [exc |-> e, dirs |-> ds, disk |-> on, constructs |-> c]
        writes(a, e) == IF DirectoryOf(a) \in ds THEN ok(ds, on \cup {a}, FALSE)
                        ELSE fails(e, FALSE)
    IN  CASE s.call = "RoboticsDataCollector" -> ok(ds, on, TRUE)
          [] s.call = "RoboticsProjectionAnalyzer" ->
                IF s.arg = "" THEN ok(ds \cup {"processed"}, on, TRUE)
                ELSE fails("TypeError", FALSE)
          [] s.call \in {"RoboticsVisualizer", "RoboticsDashboard"} -> fails("TypeError", TRUE)
          [] s.call \in {"generate_historical_data", "generate_2026_projections"} ->
                writes("data", "OSError")
          [] s.call = "save_projections" -> writes("projections_csv", "OSError")
          [] s.call = "write_report" -> writes("report", "FileNotFoundError")
          [] s.call = "create_all_visualizations" -> writes("figures", "FileNotFoundError")
          [] s.call = "save_dashboard" -> writes("dashboards", "FileNotFoundError")
          [] OTHER -> ok(ds, on, FALSE)

\* variant: the commands written with a bare except
cmd_catches_everything(e) == TRUE

\* the try blocks of the five commands: except Exception, which
\* KeyboardInterrupt is not
cmd_catches(e) == e # "KeyboardInterrupt"

\* main, lines 204-209: the code returned for an exception that left the command
main_returns(e) == IF e = "KeyboardInterrupt" THEN 130 ELSE 1

\* importing the program imports config, whose last line constructs
\* ProjectConfig: __post_init__ makes the four directories
LoadConfig ==
    /\ cli_pc = "import"
    /\ dirs' = dirs \cup Directories
    /\ cli_pc' = "start"
    /\ UNCHANGED <<argv, completed, exit, removed, disk, collector>>
    /\ UNCHANGED <<hvars, dvars, cvars>>

\* a directory removed with what it holds, by someone else, once the
\* configuration is loaded
RemoveDirectory ==
    /\ cli_pc \in {"start", "command"}
    /\ \E d \in dirs :
         /\ dirs' = dirs \ {d}
         /\ removed' = removed \cup {d}
         /\ disk' = {a \in disk : DirectoryOf(a) # d}
    /\ UNCHANGED <<argv, cli_pc, completed, exit, collector>>
    /\ UNCHANGED <<hvars, dvars, cvars>>

\* main, lines 190-200: the arguments parsed (outside the try), the help
\* printed and 1 returned when there is no command
Parse ==
    /\ cli_pc = "start"
    /\ \E parsed \in {parse_args(argv)} :
         IF parsed.status = "SystemExit"
         THEN /\ cli_pc' = "exit"
              /\ exit' = [code |-> parsed.code, exc |-> "SystemExit", why |-> "usage"]
         ELSE IF parsed.command = ""
         THEN /\ cli_pc' = "exit"
              /\ exit' = [code |-> 1, exc |-> "none", why |-> "no command"]
         ELSE /\ cli_pc' = "command"
              /\ exit' = exit
    /\ UNCHANGED <<argv, completed, dirs, removed, disk, collector>>
    /\ UNCHANGED <<hvars, dvars, cvars>>

NextStep == StepsOf(parse_args(argv))[Len(completed) + 1]

Constructed(ds) == [constructed |-> TRUE, raw_dir |-> "raw" \in ds,
                    processed_dir |-> "processed" \in ds]

\* the next call of the command returns
StepCompletes ==
    /\ cli_pc = "command"
    /\ Len(completed) < Len(StepsOf(parse_args(argv)))
    /\ \E r \in {Execute(NextStep, dirs, disk)} :
         /\ r.exc = "none"
         /\ completed' = Append(completed, NextStep)
         /\ dirs' = r.dirs
         /\ disk' = r.disk
         /\ collector' = IF r.constructs THEN Constructed(dirs) ELSE collector
    /\ UNCHANGED <<argv, cli_pc, exit, removed>>
    /\ UNCHANGED <<hvars, dvars, cvars>>

\* the next call of the command raises: the command logs the exception and
\* returns 1
StepRaises ==
    /\ cli_pc = "command"
    /\ Len(completed) < Len(StepsOf(parse_args(argv)))
    /\ \E r \in {Execute(NextStep, dirs, disk)} :
         /\ r.exc # "none"
         /\ collector' = IF r.constructs THEN Constructed(dirs) ELSE collector
         /\ IF cmd_catches(r.exc)
            THEN exit' = [code |-> 1, exc |-> "none", why |-> r.exc]
            ELSE exit' = [code |-> main_returns(r.exc), exc |-> "none", why |-> r.exc]
    /\ cli_pc' = "exit"
    /\ UNCHANGED <<argv, completed, dirs, removed, disk>>
    /\ UNCHANGED <<hvars, dvars, cvars>>

\* the command made its last call: it returns 0 and so does main
CommandReturns ==
    /\ cli_pc = "command"
    /\ Len(completed) = Len(StepsOf(parse_args(argv)))
    /\ cli_pc' = "exit"
    /\ exit' = [code |-> 0, exc |-> "none", why |-> "completed"]
    /\ UNCHANGED <<argv, completed, dirs, removed, disk, collector>>
    /\ UNCHANGED <<hvars, dvars, cvars>>

\* the user interrupts: KeyboardInterrupt is raised where the program is.
\* Inside the command it passes the command's except Exception and reaches
\* main's handler; before the try of main nothing catches it.
Interrupt ==
    /\ cli_pc \in {"start", "command"}
    /\ cli_pc' = "exit"
    /\ exit' = IF cli_pc = "start"
               THEN [code |-> -1, exc |-> "KeyboardInterrupt", why |-> "KeyboardInterrupt"]
               ELSE IF cmd_catches("KeyboardInterrupt")
               THEN [code |-> 1, exc |-> "none", why |-> "KeyboardInterrupt"]
               ELSE [code |-> main_returns("KeyboardInterrupt"), exc |-> "none",
                     why |-> "KeyboardInterrupt"]
    /\ UNCHANGED <<argv, completed, dirs, removed, disk, collector>>
    /\ UNCHANGED <<hvars, dvars, cvars>>

InitCli ==
    /\ values = <<>>
    /\ years = <<>>
    /\ target_year = TargetYear
    /\ call = NoCall
    /\ files = NoFiles
    /\ DriverInit
    /\ CollectorInit
    /\ df = NoTable
    /\ argv \in Argvs
    /\ cli_pc = "import"
    /\ completed = <<>>
    /\ exit = NoExit
    /\ dirs \in {{}, Directories}
    /\ removed = {}
    /\ disk \in {{}, {"data"}}
    /\ disk # {} => dirs = Directories
    /\ collector = NoCollector

NextCli ==
    \/ LoadConfig
    \/ RemoveDirectory
    \/ Parse
    \/ StepCompletes
    \/ StepRaises
    \/ CommandReturns
    \/ Interrupt

SpecCli == InitCli /\ [][NextCli]_vars

----------------------------------------------------------------------------
(* Properties of the projection methods (SpecMethods) *)

Methods == {"project_linear_trend", "project_polynomial_trend",
            "project_exponential_smoothing", "project_cagr"}

NonNegative(vs) == \A i \in 1..Len(vs) : vs[i].n >= 0
Increasing(ys) == \A i \in 1..(Len(ys) - 1) : ys[i] < ys[i + 1]
Ulp == Q[1, FlDen]

C2_EveryReturnClamped ==
    (call.method \in Methods /\ call.exc = "none") => call.ret.n >= 0

\* s is the population standard deviation of the values xs: its square is
\* the mean of the squared distances from the mean, as far as the precision
\* of the arithmetic tells
IsPopulationStd(s, xs) ==
    LET n == Len(xs)
        m == DivQ[SumQ(xs), R[n]]
        dist(i) == Fl[IF LeQ[m, xs[i]] THEN SubQ[xs[i], m] ELSE SubQ[m, xs[i]]]
        sq(i) == MulFl[dist(i), dist(i)]
        var == Fl[DivQ[SumQ([i \in 1..n |-> sq(i)]), R[n]]]
    IN  /\ s.n >= 0
        /\ LeQ[PowUp[s, 2], var]
        /\ LtQ[var, PowUp[AddQ[s, Ulp], 2]]

PerfectlyLinear(vs, ys) ==
    /\ Len(vs) >= 2
    /\ \A i \in 1..Len(vs) :
         MulQ[SubQ[vs[i], vs[1]], R[ys[2] - ys[1]]] = MulQ[SubQ[vs[2], vs[1]], R[ys[i] - ys[1]]]

\* k*t + c for the line value = k*year + c through the first two points
OnLine(vs, ys, t) ==
    AddQ[vs[1], MulQ[DivQ[SubQ[vs[2], vs[1]], R[ys[2] - ys[1]]], R[t - ys[1]]]]

\* C5: on a perfectly linear series of two or more points the linear method
\* returns the value of the line at the target year, 0 in its place only
\* when that value is negative
C5_LinearOnLine ==
    (call.method = "project_linear_trend" /\ PerfectlyLinear(values, years)) =>
        /\ call.exc = "none"
        /\ call.ret = IF OnLine(values, years, target_year).n < 0 THEN Zero
                      ELSE OnLine(values, years, target_year)

\* a rising line through unevenly spaced years, projected two years ahead
C5_Witness ==
    /\ call.method = "project_linear_trend"
    /\ values = <<R[-1], R[0], R[2]>>
    /\ years = <<2020, 2021, 2023>>
    /\ target_year = 2025
    /\ call.ret = R[4]

\* g is the k-th root of q as far as the precision tells: g^k <= q < (g + ulp)^k
IsRoot(g, q, k) ==
    /\ g.n >= 0
    /\ LeQ[PowUp[g, k], q]
    /\ LtQ[q, PowUp[AddQ[g, Ulp], k]]

C7_SmoothingRecurrence ==
    (call.method = "project_exponential_smoothing" /\ Len(values) >= 1) =>
        LET S == Smoothed(values, Q[3, 10])
            n == Len(values)
            trend == IF n = 1 THEN Zero ELSE SubQ[S[n], S[n - 1]]
            ahead == AddQ[S[n], MulQ[R[2], trend]]
        IN  /\ call.exc = "none"
            /\ Len(S) = n
            /\ S[1] = values[1]
            /\ \A i \in 2..n :
                 S[i] = AddQ[MulQ[Q[3, 10], values[i]], MulQ[Q[7, 10], S[i - 1]]]
            /\ call.ret = (IF ahead.n > 0 THEN ahead ELSE Zero)
            /\ values = Whole(<<10, 20>>) =>
                 /\ S = Whole(<<10, 13>>)
                 /\ trend = R[3]
                 /\ call.ret = R[19]

\* the worked series [10, 20] has been smoothed and projected
C7_Witness ==
    /\ call.method = "project_exponential_smoothing"
    /\ values = Whole(<<10, 20>>)
    /\ call.ret = R[19]

C12_LengthCheckedFirst ==
    (call.method = "ensemble_projection" /\ Len(values) = 0) =>
        /\ call.exc = "ValueError"
        /\ call.result = NoResult
        /\ call.invoked = <<>>

\* C20: calculate_growth_rates raises ValueError when the table lacks the
\* column named or has fewer than 2 rows, the column being looked at first
\* (a table that fails both tests is told about the column); it then returns
\* no table and the caller's table is as it was
C20_GrowthRatesRejects ==
    (op.name = "calculate_growth_rates") =>
        LET absent == op.value_column \notin DOMAIN op.before.cols
            short == Len(op.before.year) < 2
        IN  /\ (absent \/ short) <=> (op.exc = "ValueError")
            /\ absent => op.msg = ColumnNotFound
            /\ (~absent /\ short) => op.msg = TooFewRows
            /\ op.exc = "ValueError" => (op.ret = NoTable /\ df = op.before)
            /\ op.exc \in {"none", "ValueError"}

\* a table of one row asked for a column it does not have
C20_Witness ==
    /\ op.name = "calculate_growth_rates"
    /\ Len(df.year) = 1
    /\ op.value_column = "nonexistent_column"
    /\ op.exc = "ValueError"
    /\ op.msg = ColumnNotFound
    /\ df = [year |-> years, cols |-> [c \in {"value"} |-> values]]

----------------------------------------------------------------------------
(* Properties of generate_2026_projections (Spec) *)

SeriesOf(data, k) ==
    LET f == CHOOSE g \in FileNames : k \in ColumnsOf(g)
    IN  <<data[f].year, data[f].cols[k]>>

C11_FailureIsLocal ==
    (pc = "idle" /\ raised # "none") =>
        /\ last_run.valid
        /\ last_run.data = historical_data
        /\ \A k \in DOMAIN projections :
             /\ k \in DOMAIN last_run.projections
             /\ last_run.projections[k] = projections[k]

DataFiles == {Read(f) : f \in FileNames} \cup {Write(f) : f \in FileNames}
OutputFiles == {Write("projections_csv"), Write("report")}
Events(log) == {log[i] : i \in 1..Len(log)}

----------------------------------------------------------------------------
(* Properties of the collector (SpecCollector) *)

Succeeded(o, name) == o.name = name /\ o.exc = "none"
Missing(fs) == \E f \in FileNames : ~fs[f].exists
Writes(log) == {e \in Events(log) : e[1] = "write"}

\* C14: a second generate_historical_data right after a first returns the
\* tables the first returned and leaves the three files with the contents the
\* first left, which are those tables
C14_GenerateIdempotent ==
    (/\ Succeeded(prev_op, "generate_historical_data")
     /\ Succeeded(op, "generate_historical_data"))
    => /\ op.ret = prev_op.ret
       /\ op.before = prev_op.after
       /\ op.after = prev_op.after
       /\ files = prev_op.after
       /\ Writes(op.io) = {Write(f) : f \in FileNames}

\* the first call replaced files that held something else, the second wrote
\* the same contents over them
C14_Witness ==
    /\ Succeeded(prev_op, "generate_historical_data")
    /\ Succeeded(op, "generate_historical_data")
    /\ \A f \in FileNames : prev_op.before[f].exists
    /\ prev_op.before # prev_op.after
    /\ files = op.after
    /\ Frames(files) = op.ret

\* C15: load_data generates exactly when a file is missing.  With one of the
\* three files absent it runs generate_historical_data, and then the three
\* files exist and hold the fixed values, those that were present overwritten;
\* with the three present (and still there when read) it returns what they
\* hold, generates nothing and writes nothing
C15_FallbackWhenMissing ==
    Succeeded(op, "load_data") =>
        /\ Missing(op.before) =>
              /\ op.gens >= 1
              /\ op.after = GeneratedFiles
              /\ files = GeneratedFiles
              /\ op.ret = FixedDataset
              /\ Writes(op.io) = {Write(f) : f \in FileNames}
        /\ (~Missing(op.before) /\ op.env[1] = NoFault) =>
              /\ op.gens = 0
              /\ op.ret = Frames(op.before)
              /\ op.after = op.before
              /\ files = op.before
              /\ Writes(op.io) = {}
              /\ op.io = <<Read("global"), Read("regional"), Read("installations")>>

\* one file was missing and another held values of its own: after the load
\* the three files hold the fixed values
C15_Witness ==
    /\ Succeeded(op, "load_data")
    /\ prev_op.name = "generate_historical_data"
    /\ prev_op.exc = "OSError"
    /\ prev_op.before = NoFiles
    /\ op.before["global"].exists
    /\ ~op.before["installations"].exists
    /\ op.gens = 1
    /\ files = GeneratedFiles

\* C16: a table load_data returns has rows and has every required column:
\* persisted data that lacks a column or has no rows makes load_data fail
C16_LoadValidates ==
    Succeeded(op, "load_data") =>
        \A f \in FileNames :
            /\ Len(op.ret[f].year) > 0
            /\ ColumnsOf(f) \subseteq DOMAIN op.ret[f].cols

\* C17: load_data attempts generate_historical_data at most once, and the
\* exception of a generation that fails, a FileNotFoundError too, is the
\* exception load_data raises
C17_NoRetry ==
    (op.name = "load_data") =>
        /\ op.gens <= 1
        /\ (op.gens >= 1 /\ op.env[2] # NoFault) => op.exc = op.env[2].kind

\* C18: the three tables generate_historical_data returns have 10 rows each,
\* the years 2015..2024 in increasing order, the 5, 6 and 4 required series,
\* every one with a value in each row
C18_GeneratedShape ==
    Succeeded(op, "generate_historical_data") =>
        /\ DOMAIN op.ret = {"global", "regional", "installations"}
        /\ \A f \in DOMAIN op.ret :
             /\ op.ret[f].year = <<2015, 2016, 2017, 2018, 2019, 2020, 2021, 2022, 2023, 2024>>
             /\ \A c \in DOMAIN op.ret[f].cols :
                  /\ Len(op.ret[f].cols[c]) = 10
                  /\ \A i \in 1..10 : op.ret[f].cols[c][i] \in Rat
        /\ DOMAIN op.ret["global"].cols =
               {"global_market_size", "industrial_robots", "service_robots",
                "medical_robots", "agricultural_robots"}
        /\ DOMAIN op.ret["regional"].cols =
               {"china", "japan", "south_korea", "germany", "usa", "rest_of_world"}
        /\ DOMAIN op.ret["installations"].cols =
               {"global_installations", "china_installations",
                "industrial_installations", "service_installations"}

\* a generation that found no files and wrote the three
C18_Witness ==
    /\ Succeeded(op, "generate_historical_data")
    /\ op.before = NoFiles
    /\ \A f \in FileNames : files[f].exists
    /\ op.ret["global"].cols["global_market_size"][10] = Q[705, 10]

\* C19: load_data called after a generate_historical_data that succeeded, the
\* files as that call left them, reads the files and returns tables with the
\* columns, the years and the values generate_historical_data returned
C19_RoundTrip ==
    (/\ Succeeded(prev_op, "generate_historical_data")
     /\ Succeeded(op, "load_data")
     /\ op.before = prev_op.after)
    => /\ op.ret = prev_op.ret
       /\ \A f \in FileNames :
            /\ DOMAIN op.ret[f].cols = DOMAIN prev_op.ret[f].cols
            /\ op.ret[f].year = prev_op.ret[f].year
       /\ op.env[1] = NoFault => (op.gens = 0 /\ op.ret = Frames(prev_op.after))

\* the tables were read back from the files, which hold floats with a
\* fraction ("24.8"), floats without ("6.0") and ints ("254")
C19_Witness ==
    /\ Succeeded(prev_op, "generate_historical_data")
    /\ Succeeded(op, "load_data")
    /\ op.gens = 0
    /\ Len(op.io) = 3
    /\ files["global"].table.cols["global_market_size"][1] = [mant |-> 248, exp |-> 1]
    /\ files["global"].table.cols["medical_robots"][10] = [mant |-> 60, exp |-> 1]
    /\ files["installations"].table.cols["global_installations"][1] = [mant |-> 254, exp |-> 0]
    /\ op.ret["global"].cols["medical_robots"][10] = R[6]

----------------------------------------------------------------------------
(* Properties of calculate_growth_rates (SpecMethods) *)

\* the column the call was asked for, as the caller's table had it
AskedColumn == op.before.cols[op.value_column]

GrowthRatesReturned == op.name = "calculate_growth_rates" /\ op.exc = "none"

\* (b - a) / a * 100 in float64: a division by 0 is an infinity, 0 / 0 is nan
YearOverYear(a, b) ==
    IF a.n = 0 THEN (IF b.n = 0 THEN NaN ELSE IF b.n > 0 THEN PosInf ELSE NegInf)
    ELSE MulFl[Fl[DivQ[SubQ[b, a], a]], R[100]]

\* ((last / first) ** (1 / k) - 1) * 100 in float64
AnnualRate(first, last, k) ==
    LET ratio == Fl[DivQ[last, first]]
    IN  IF ratio.n < 0 /\ k # 1 THEN NaN
        ELSE MulFl[SubQ[RootFl[ratio, k], One], R[100]]

\* C21: on a table of at least 2 rows whose first value is > 0,
\* calculate_growth_rates returns growth_rate[0] = NaN,
\* growth_rate[i] = (v[i] - v[i-1]) / v[i-1] * 100 for i >= 1 and, in every
\* row of cagr, the one value ((last / first) ** (1 / (rows - 1)) - 1) * 100;
\* for [100, 110] that is growth_rate = [NaN, 10.0] and cagr = 10.0
C21_GrowthRates ==
    (GrowthRatesReturned /\ AskedColumn[1].n > 0) =>
        LET v == AskedColumn
            rows == Len(v)
            g == op.ret.cols["growth_rate"]
            c == op.ret.cols["cagr"]
        IN  /\ rows >= 2
            /\ Len(g) = rows /\ Len(c) = rows
            /\ g[1] = NaN
            /\ \A i \in 2..rows : g[i] = YearOverYear(v[i - 1], v[i])
            /\ \A i \in 1..rows : c[i] = AnnualRate(v[1], v[rows], rows - 1)
            /\ v = Whole(<<100, 110>>) => (g = <<NaN, R[10]>> /\ c = <<R[10], R[10]>>)

\* the table [100, 110] with its two columns worked out
C21_Witness ==
    /\ GrowthRatesReturned
    /\ AskedColumn = Whole(<<100, 110>>)
    /\ op.ret.cols["growth_rate"] = <<NaN, R[10]>>
    /\ op.ret.cols["cagr"] = <<R[10], R[10]>>

\* C22: on a table of at least 2 rows whose first value is <= 0,
\* calculate_growth_rates raises no error and the cagr it returns is
\* not-a-number in every row
C22_CagrUndefined ==
    (/\ op.name = "calculate_growth_rates"
     /\ op.value_column \in DOMAIN op.before.cols
     /\ Len(op.before.year) >= 2
     /\ AskedColumn[1].n <= 0) =>
        /\ op.exc = "none"
        /\ Len(op.ret.cols["cagr"]) = Len(op.before.year)
        /\ \A i \in 1..Len(op.before.year) : op.ret.cols["cagr"][i] = NaN

\* three rows that start below zero: the ratio last / first exists, the cagr
\* is nan all the same
C22_Witness ==
    /\ GrowthRatesReturned
    /\ AskedColumn = <<R[-1], R[1], R[2]>>
    /\ op.ret.cols["cagr"] = <<NaN, NaN, NaN>>

\* C28: calculate_growth_rates never changes the table it is given: after the
\* call, failed or not, the caller's table has the columns and the values it
\* had before, and on success growth_rate and cagr are columns of the table
\* returned only, which holds the caller's columns unchanged beside them
C28_InputNotMutated ==
    (op.name = "calculate_growth_rates") =>
        /\ df = op.before
        /\ GrowthRatesReturned =>
              /\ DOMAIN df.cols \cap {"growth_rate", "cagr"} = {}
              /\ DOMAIN op.ret.cols = DOMAIN op.before.cols \cup {"growth_rate", "cagr"}
              /\ op.ret.year = op.before.year
              /\ \A c \in DOMAIN op.before.cols : op.ret.cols[c] = op.before.cols[c]

\* a successful call on three rows: the caller still holds one column, the
\* table returned three
C28_Witness ==
    /\ GrowthRatesReturned
    /\ Len(df.year) = 3
    /\ DOMAIN df.cols = {"value"}
    /\ DOMAIN op.ret.cols = {"value", "growth_rate", "cagr"}
    /\ df.cols["value"] = <<R[1], R[2], R[2]>>

\* C30: the provider and the engine agree on CAGR for annual data: on a
\* table whose years go up by exactly 1 from row to row and whose first value
\* is > 0, every row of the cagr column of calculate_growth_rates is 100
\* times the rate project_cagr derives from the same values and years
C30_CagrAgrees ==
    (/\ GrowthRatesReturned
     /\ AskedColumn[1].n > 0
     /\ \A i \in 2..Len(op.before.year) : op.before.year[i] = op.before.year[i - 1] + 1) =>
        LET rate == project_cagr_rate(AskedColumn, op.before.year)
        IN  \A i \in 1..Len(op.before.year) :
                op.ret.cols["cagr"][i] = IF rate.d = 0 THEN NaN ELSE MulFl[rate, R[100]]

\* three annual rows from 1 to 2: both count two periods
C30_Witness ==
    /\ GrowthRatesReturned
    /\ op.before.year = <<BaseYear, BaseYear + 1, BaseYear + 2>>
    /\ AskedColumn = <<R[1], R[1], R[2]>>
    /\ op.ret.cols["cagr"][3] = MulFl[project_cagr_rate(values, years), R[100]]
    /\ op.ret.cols["cagr"][3].n > 0

----------------------------------------------------------------------------
(* Further properties of ensemble_projection (SpecMethods) *)

EnsembleReturned == call.method = "ensemble_projection" /\ call.exc = "none"

\* the four method outputs of the result
FourOutputs ==
    {call.result.linear, call.result.polynomial,
     call.result.exponential_smoothing, call.result.cagr}

AnnualYears == [i \in 1..Len(years) |-> BaseYear + i - 1]

\* the values go up from row to row and start above zero
Growing == /\ Len(values) >= 2
           /\ values[1].n > 0
           /\ \A i \in 2..Len(values) : LtQ[values[i - 1], values[i]]

----------------------------------------------------------------------------
(* Order of validation and persistence (SpecCollector) *)

----------------------------------------------------------------------------
(* Properties of the command line program (SpecCli) *)

MainLeft == cli_pc = "exit"
CommandRan == parse_args(argv).status = "ok" /\ parse_args(argv).command # ""

\* C23, as stated: main is never left by an exception, and the code it
\* returns is 0 when the command completed, 130 when the user interrupted
\* it, 1 when it raised another exception or when there was no subcommand
C23_EveryOutcomeMapped ==
    MainLeft =>
        /\ exit.exc = "none"
        /\ exit.code = (CASE exit.why = "completed" -> 0
                          [] exit.why = "KeyboardInterrupt" -> 130
                          [] OTHER -> 1)

\* C23 amended: once the command runs, every outcome is an exit code: 0 when
\* all its calls completed, 130 when KeyboardInterrupt was raised while it
\* ran, 1 when one of its calls raised an exception; no command given is 1.
\* Before the command runs main is left by an exception: SystemExit from
\* argparse, with status 2 for arguments it does not accept and 0 for --help
\* and --version, or a KeyboardInterrupt raised that early
C23_CommandOutcomesMapped ==
    MainLeft =>
        LET parsed == parse_args(argv)
            early == exit.exc = "KeyboardInterrupt" /\ completed = <<>> /\ exit.code = -1
        IN  /\ exit.exc \in {"none", "SystemExit", "KeyboardInterrupt"}
            /\ parsed.status = "SystemExit" =>
                 \/ early
                 \/ /\ exit.exc = "SystemExit"
                    /\ exit.code = parsed.code
                    /\ exit.code \in {0, 2}
            /\ (parsed.status = "ok" /\ parsed.command = "") =>
                 \/ early
                 \/ exit.exc = "none" /\ exit.code = 1
            /\ CommandRan =>
                 \/ early
                 \/ /\ exit.exc = "none"
                    /\ exit.code \in {0, 1, 130}
                    /\ exit.code = 0 <=> exit.why = "completed"
                    /\ exit.code = 130 <=> exit.why = "KeyboardInterrupt"
                    /\ exit.why = "completed" => completed = StepsOf(parsed)
                    /\ exit.code = 1 =>
                         /\ Len(completed) < Len(StepsOf(parsed))
                         /\ exit.why = Execute(NextStep, dirs, disk).exc

\* the user interrupted a command that had made some of its calls
C23_Witness ==
    /\ MainLeft
    /\ CommandRan
    /\ completed # <<>>
    /\ Len(completed) < Len(StepsOf(parse_args(argv)))
    /\ exit = [code |-> 130, exc |-> "none", why |-> "KeyboardInterrupt"]

\* C24: with the storage writable (no directory removed) and no interrupt,
\* the run command makes the calls of the whole pipeline in order: data
\* generated, projections computed, projections CSV saved, report written,
\* visualizations created, dashboards created; it reaches the end and
\* cmd_run_analysis returns 0
C24_PipelineCompletes ==
    (/\ MainLeft
     /\ parse_args(argv).command = "run"
     /\ removed = {}
     /\ exit.why # "KeyboardInterrupt") =>
        /\ completed = run_full_analysis
        /\ exit.code = 0
        /\ disk = Artefacts

\* C25: whenever a RoboticsDataCollector has been constructed, the
\* directories it recorded as raw_dir and processed_dir existed at that
\* moment, whatever was done to them after the configuration was loaded
C25_DirectoriesExist ==
    collector.constructed => (collector.raw_dir /\ collector.processed_dir)

====
